---- MODULE Spec2Model ----
(***************************************************************************)
(* Model of the content pipeline: the LangGraph workflow of                *)
(* ai_engine/graph/campaign_workflow.py (four stage nodes threaded through *)
(* a WorkflowState) and the campaign API of backend/routers/campaigns.py   *)
(* (an in-memory store with create/list/get/execute/stage/delete).         *)
(*                                                                         *)
(* Python's Optional values are sets: None is {} and a value v is {v}.     *)
(* A dict is a record.  The campaign dicts are heap objects: campaigns_db  *)
(* holds the keys present in the store, objects holds every dict ever      *)
(* allocated (an execute in flight keeps a reference to its dict after a   *)
(* delete has removed the key).  Timestamps are abstracted to a mark; the   *)
(* messages log and current_agent of WorkflowState are left out (no        *)
(* handler reads them).  graph.ainvoke is taken to run the nodes along the *)
(* edges, each on the merged state its predecessor returned, and to hand   *)
(* back the final WorkflowState whose fields execute reads.  Handlers run  *)
(* atomically between the points where asyncio can suspend them: the start *)
(* of graph.ainvoke and each model call.                                   *)
(*                                                                         *)
(* ABSimulatorNode of ai_engine/nodes/ab_simulator.py is modelled by the   *)
(* variable selector (SpecAB): texts the model answers the audience prompt *)
(* with are sequences of tokens (a label, a newline, other words), so that *)
(* strip, split and the substring test are computed; drafts and rewritten  *)
(* variants are opaque strings.  mock_call (SpecMock) applies the mock     *)
(* Copywriter to WorkflowStates with arbitrary field values.               *)
(***************************************************************************)
EXTENDS Integers, Sequences, FiniteSets, TLC

\* ---------------------------------------------------------------- bounds
MaxCampaigns == 2
MaxRuns == 2

CampaignIds == 1..MaxCampaigns
RunIds == 1..MaxRuns

\* Request bodies a client may post to create_campaign (topic has min_length 10;
\* content_type is any string, "webinar" is none of the four known types).
CreateBodies ==
    {[name |-> "Launch", topic |-> "Electric Vehicles",
      target_audience |-> "Urban commuters", tone |-> "casual",
      content_type |-> "social_media"],
     [name |-> "Autumn", topic |-> "Solar Roof Tiles",
      target_audience |-> "Homeowners", tone |-> "professional",
      content_type |-> "webinar"]}

\* str(e) of an exception raised by a model call; the empty string is the
\* message of an exception constructed without arguments (e.g. TimeoutError()).
ExcMessages == {"", "Connection error."}

\* Texts the model backend may answer with.
LLMResponses == {"{\"themes\": []}"}

\* ---------------------------------------------------------------- Python values
None == {}

Some(v) == {v}

TheValue(opt) == CHOOSE v \in opt : TRUE

\* Truth value of an Optional[str]: None and "" are both false.
TruthyStr(opt) == opt # None /\ opt # Some("")

\* Truth value of an Optional[dict]: every dict of the model has fields.
TruthyDict(opt) == opt # None

\* dict.get(key) on a record: None when the key is missing.
Get(d, k) == IF k \in DOMAIN d THEN d[k] ELSE None

\* str.lower() on the strings of the model.
Lower(s) ==
    CASE s = "Electric Vehicles" -> "electric vehicles"
      [] s = "Solar Roof Tiles" -> "solar roof tiles"
      [] s = "Urban commuters" -> "urban commuters"
      [] s = "Homeowners" -> "homeowners"
      [] OTHER -> s

\* str(e) of the AttributeError raised by None.get(...).
AttributeErrorMsg == "'NoneType' object has no attribute 'get'"

\* ---------------------------------------------------------------- the graph
END == "__end__"

Nodes == {"researcher", "copywriter", "designer", "reviewer"}

EntryPoint == "researcher"

\* The edges with designer and copywriter exchanged.
EdgeDesignerFirst(n) ==
    CASE n = "researcher" -> "designer"
      [] n = "designer" -> "copywriter"
      [] n = "copywriter" -> "reviewer"
      [] n = "reviewer" -> END

\* workflow.add_edge(a, b)
Edge(n) ==
    CASE n = "researcher" -> "copywriter"
      [] n = "copywriter" -> "designer"
      [] n = "designer" -> "reviewer"
      [] n = "reviewer" -> END

\* WorkflowState(topic=..., target_audience=..., tone=..., content_type=...)
WorkflowState(topic, target_audience, tone, content_type) ==
    [topic |-> topic, target_audience |-> target_audience, tone |-> tone,
     content_type |-> content_type,
     research |-> None, research_error |-> None,
     copy |-> None, copy_error |-> None,
     design |-> None, design_error |-> None,
     review |-> None, review_error |-> None,
     final_content |-> None]

\* ---------------------------------------------------------------- executors
\* An executor call yields [raised |-> FALSE, value |-> dict] or
\* [raised |-> TRUE, msg |-> str(e)].
Returned(v) == [raised |-> FALSE, value |-> v, msg |-> ""]

Raised(m) == [raised |-> TRUE, value |-> [none |-> TRUE], msg |-> m]

run_research_llm(state, content) ==
    [themes |-> <<state.topic>>,
     key_points |-> <<"Key point 1", "Key point 2">>,
     keywords |-> <<Lower(state.topic)>>,
     sources |-> <<"General knowledge">>,
     summary |-> content]

run_copywriter_llm(state) ==
    [headline |-> state.topic \o ": The Ultimate Guide",
     body |-> "This comprehensive guide covers everything you need to know about "
              \o state.topic \o ". Written specifically for "
              \o state.target_audience \o " with a " \o state.tone \o " tone.",
     call_to_action |-> "Learn more today!",
     word_count |-> 500]

run_designer_llm(state) ==
    [color_palette |-> <<"#3498db", "#2ecc71", "#e74c3c">>,
     image_ideas |-> <<"Hero image", "Infographic", "Charts">>,
     layout |-> "Clean, modern layout",
     typography |-> "Sans-serif fonts recommended",
     suggestions |-> <<"Use hero image", "Add subheadings", "Include visuals">>]

run_reviewer_llm(state) ==
    [score |-> 8,
     feedback |-> "Good content, ready for publishing",
     approved |-> TRUE,
     suggestions |-> <<"Minor tweaks only">>]

run_research_mock(state) ==
    [themes |-> <<state.topic>>,
     key_points |-> <<"Introduction to " \o state.topic,
                      "Key benefits of " \o state.topic,
                      "Best practices for " \o state.topic>>,
     keywords |-> <<Lower(state.topic), Lower(state.target_audience)>>,
     sources |-> <<"Industry reports", "Expert opinions">>,
     summary |-> "Research summary for " \o state.topic]

\* The dict literal of _run_copywriter_mock; "\n" is kept as the two-character
\* escape and the emoji of the social_media template as "*".
content_type_map(state) ==
    [blog_post |-> "This is a comprehensive blog post about " \o state.topic
                   \o ". It's designed for " \o state.target_audience
                   \o " and written in a " \o state.tone \o " tone.",
     social_media |-> "* " \o state.topic \o "\\n\\nLearn more! #learn",
     email |-> "Subject: Discover " \o state.topic \o "\\n\\nHi there,\\n\\nLet us share...",
     ad |-> "Get " \o state.topic \o " Now! Limited time offer."]

\* dict.get that answers "" for a missing key, whatever the default.
MapGetEmpty(m, k, default) == IF k \in DOMAIN m THEN m[k] ELSE ""

\* content_type_map.get(key, default)
MapGet(m, k, default) == IF k \in DOMAIN m THEN m[k] ELSE default

run_copywriter_mock(state) ==
    [headline |-> "The Complete Guide to " \o state.topic,
     body |-> MapGet(content_type_map(state), state.content_type,
                     content_type_map(state)["blog_post"]),
     call_to_action |-> "Get Started Today!",
     word_count |-> Len(MapGet(content_type_map(state), state.content_type, ""))]

run_designer_mock(state) ==
    [color_palette |-> [primary |-> "#2563EB", secondary |-> "#10B981", accent |-> "#F59E0B"],
     image_ideas |-> <<"Hero banner with text overlay", "Data visualization charts",
                       "Team/product photos">>,
     layout |-> [header |-> "Full-width navigation",
                 content |-> "Two-column or single column",
                 footer |-> "Contact info and links"],
     typography |-> [headings |-> "Inter Bold", body |-> "Inter Regular"],
     suggestions |-> <<"Use a hero image at the top",
                       "Break up text with bullet points",
                       "Add relevant images throughout">>]

run_reviewer_mock(state) ==
    [score |-> 8,
     feedback |-> "Content is well-written and appropriate for the target audience. "
                  \o "The tone matches the brand guidelines. Ready for publishing with minor tweaks.",
     approved |-> TRUE,
     suggestions |-> <<"Add more specific statistics", "Include a real customer quote",
                       "Proofread for typos">>,
     metrics |-> [readability_score |-> 75, seo_score |-> 85, engagement_potential |-> 80]]

\* ---------------------------------------------------------------- stage nodes
\* What a node call yields: the merged state it returns, or an exception that
\* leaves the node.
NodeReturn(s) == [raised |-> FALSE, state |-> s, msg |-> ""]

NodeRaise(s, m) == [raised |-> TRUE, state |-> s, msg |-> m]

Timestamp == "datetime.now()"

\* The early return of a node: the upstream error string is truthy.
ShortCircuit(n, state) ==
    CASE n = "researcher" -> FALSE
      [] n = "copywriter" -> TruthyStr(state.research_error)
      [] n = "designer" -> TruthyStr(state.copy_error)
      [] n = "reviewer" -> TruthyStr(state.design_error)

\* The update a short-circuited node returns.
CannotProceed(n, state) ==
    CASE n = "copywriter" -> [state EXCEPT !.copy_error = Some("Cannot write without research")]
      [] n = "designer" -> [state EXCEPT !.design_error = Some("Cannot design without copy")]
      [] n = "reviewer" -> [state EXCEPT !.review_error = Some("Cannot review without design")]
      [] OTHER -> state

\* _research_node without its except clause.
research_node_uncaught(state, out) ==
    IF out.raised
    THEN NodeRaise(state, out.msg)
    ELSE NodeReturn([state EXCEPT !.research = Some(out.value)])

\* try/except of _research_node around the executor's outcome out.
research_node(state, out) ==
    IF out.raised
    THEN NodeReturn([state EXCEPT !.research_error = Some(out.msg)])
    ELSE NodeReturn([state EXCEPT !.research = Some(out.value)])

copywriter_node(state, out) ==
    IF out.raised
    THEN NodeReturn([state EXCEPT !.copy_error = Some(out.msg)])
    ELSE NodeReturn([state EXCEPT !.copy = Some(out.value)])

\* _designer_node with an except clause that records nothing.
designer_node_silent(state, out) ==
    IF out.raised
    THEN NodeReturn(state)
    ELSE NodeReturn([state EXCEPT !.design = Some(out.value)])

designer_node(state, out) ==
    IF out.raised
    THEN NodeReturn([state EXCEPT !.design_error = Some(out.msg)])
    ELSE NodeReturn([state EXCEPT !.design = Some(out.value)])

\* final_content with the headline taken from the review feedback.
FinalContentWrongHeadline(state, review_data) ==
    [headline |-> review_data.feedback,
     body |-> TheValue(state.copy).body,
     call_to_action |-> TheValue(state.copy).call_to_action,
     visual_suggestions |-> TheValue(state.design).suggestions,
     review_score |-> review_data.score,
     review_feedback |-> review_data.feedback,
     approved |-> review_data.approved,
     generated_at |-> Timestamp]

\* The final_content dict of _reviewer_node (state.copy and state.design are dicts).
FinalContent(state, review_data) ==
    [headline |-> TheValue(state.copy).headline,
     body |-> TheValue(state.copy).body,
     call_to_action |-> TheValue(state.copy).call_to_action,
     visual_suggestions |-> TheValue(state.design).suggestions,
     review_score |-> review_data.score,
     review_feedback |-> review_data.feedback,
     approved |-> review_data.approved,
     generated_at |-> Timestamp]

\* _reviewer_node returning the review without the "final_content" key.
reviewer_node_without_final_content(state, out) ==
    IF out.raised
    THEN NodeReturn([state EXCEPT !.review_error = Some(out.msg)])
    ELSE IF state.copy = None \/ state.design = None
    THEN NodeReturn([state EXCEPT !.review_error = Some(AttributeErrorMsg)])
    ELSE NodeReturn([state EXCEPT !.review = Some(out.value)])

\* try/except of _reviewer_node: state.copy.get / state.design.get raise
\* AttributeError on None, inside the try block.
reviewer_node(state, out) ==
    IF out.raised
    THEN NodeReturn([state EXCEPT !.review_error = Some(out.msg)])
    ELSE IF state.copy = None \/ state.design = None
    THEN NodeReturn([state EXCEPT !.review_error = Some(AttributeErrorMsg)])
    ELSE NodeReturn([state EXCEPT !.review = Some(out.value),
                                  !.final_content = Some(FinalContent(state, out.value))])

NodeBody(n, state, out) ==
    CASE n = "researcher" -> research_node(state, out)
      [] n = "copywriter" -> copywriter_node(state, out)
      [] n = "designer" -> designer_node(state, out)
      [] n = "reviewer" -> reviewer_node(state, out)

\* The mock executor of a node (self.llm is None).
MockExecutor(n, state) ==
    CASE n = "researcher" -> Returned(run_research_mock(state))
      [] n = "copywriter" -> Returned(run_copywriter_mock(state))
      [] n = "designer" -> Returned(run_designer_mock(state))
      [] n = "reviewer" -> Returned(run_reviewer_mock(state))

\* The model-backed executor of a node once chain.ainvoke has answered content.
LLMExecutor(n, state, content) ==
    CASE n = "researcher" -> Returned(run_research_llm(state, content))
      [] n = "copywriter" -> Returned(run_copywriter_llm(state))
      [] n = "designer" -> Returned(run_designer_llm(state))
      [] n = "reviewer" -> Returned(run_reviewer_llm(state))

\* A model-backed executor raises before its model call: _run_reviewer_llm
\* evaluates state.copy.get(...) to build the arguments of chain.ainvoke.
RaisesBeforeCall(n, state) == n = "reviewer" /\ state.copy = None

\* What a model call can do: answer a text, or raise one of the exceptions
\* errs the backend raises.
ModelOutcomes(errs) ==
    {[raised |-> FALSE, text |-> c] : c \in LLMResponses}
    \cup {[raised |-> TRUE, text |-> m] : m \in errs}

\* result dict returned by CampaignWorkflow.execute
Result(state) ==
    [research |-> state.research, copy |-> state.copy, design |-> state.design,
     review |-> state.review, final_content |-> state.final_content]

\* ---------------------------------------------------------------- state
VARIABLES
    llm,            \* self.llm is set (OPENAI_API_KEY configured at import)
    campaigns_db,   \* the keys of the in-memory store
    objects,        \* the campaign dict allocated under each identifier
    next_id,        \* the next fresh identifier (uuid4 never repeats)
    backend_errors, \* str(e) of the exceptions the model backend raises
    runs,           \* the execute requests: position, WorkflowState, history
    response,       \* the HTTP response a handler has returned, until it is sent
    selector,       \* the call of ABSimulatorNode.run: position, texts, result
    mock_call       \* a call of _run_copywriter_mock: its state and its result

vars ==
    <<llm, backend_errors, campaigns_db, objects, next_id, runs, response,
      selector, mock_call>>

StageAgents == <<"researcher", "copywriter", "designer", "reviewer">>

\* Stage names a client may ask for: one of the four agents, and a name that
\* is none of them.
StageNames == {"reviewer", "publisher"}

\* The identifier slot before create_campaign has allocated its dict.
NoObject ==
    [id |-> 0, name |-> "", topic |-> "", target_audience |-> "", tone |-> "",
     content_type |-> "", status |-> "unallocated", stages |-> <<>>,
     final_content |-> None, error |-> None]

\* db_campaign with the reviewer's Stage record left out.
NewCampaignWithoutReviewer(campaign_id, campaign) ==
    [id |-> campaign_id, name |-> campaign.name, topic |-> campaign.topic,
     target_audience |-> campaign.target_audience, tone |-> campaign.tone,
     content_type |-> campaign.content_type, status |-> "pending",
     stages |-> [i \in 1..3 |-> [agent |-> StageAgents[i], status |-> "pending",
                                 output |-> None, completed_at |-> None]],
     final_content |-> None, error |-> None]

\* db_campaign of create_campaign
NewCampaign(campaign_id, campaign) ==
    [id |-> campaign_id, name |-> campaign.name, topic |-> campaign.topic,
     target_audience |-> campaign.target_audience, tone |-> campaign.tone,
     content_type |-> campaign.content_type, status |-> "pending",
     stages |-> [i \in 1..4 |-> [agent |-> StageAgents[i], status |-> "pending",
                                 output |-> None, completed_at |-> None]],
     final_content |-> None, error |-> None]

\* CampaignResponse(**campaign): the declared fields only (no "error" key).
CampaignResponse(c) ==
    [id |-> c.id, name |-> c.name, topic |-> c.topic,
     target_audience |-> c.target_audience, tone |-> c.tone,
     content_type |-> c.content_type, status |-> c.status, stages |-> c.stages,
     final_content |-> c.final_content]

\* A response carries the request it answers: the operation, the campaign_id
\* and the stage of its path.
NoResponse ==
    [op |-> "none", id |-> 0, stage |-> "", status_code |-> 0, detail |-> "", body |-> {}]

Ok(op, id, stage, body) ==
    [op |-> op, id |-> id, stage |-> stage, status_code |-> 200, detail |-> "", body |-> body]

\* raise HTTPException(status_code=404, detail=...)
HTTPException(op, id, stage, detail) ==
    [op |-> op, id |-> id, stage |-> stage, status_code |-> 404, detail |-> detail,
     body |-> {}]

\* A run slot that no execute request has taken yet.  events is the history of
\* the run's graph: <<"enter", n>> when node n is called, <<"invoke", n>> when
\* n calls its executor, <<"call", n>> when the executor awaits the model,
\* <<"raise", n>> when the executor raises, <<"return", n>> when n returns.
IdleRun ==
    [pc |-> "idle", node |-> EntryPoint, campaign |-> 0,
     state |-> WorkflowState("", "", "professional", "blog_post"),
     events |-> <<>>, exc |-> ""]

\* ---------------------------------------------------------------- A/B selector
\* A model answer to the audience prompt is a text: a sequence of tokens, each
\* a label, a newline or a run of other words.
NL == "\n"

Labels == {"Variant A", "Variant B"}

Tokens == Labels \cup {NL, "because"}

MaxTokens == 3

\* response.content of the audience-simulation call.
AudienceTexts == UNION {[1..n -> Tokens] : n \in 0..MaxTokens}

\* Drafts a caller may pass to run.
Drafts == {"Charge at home overnight.", "Zero emissions, zero compromise."}

\* The state dicts run is called with: no "draft_content" key, an empty
\* draft, and the drafts.
SelectorStates ==
    {[topic |-> "Electric Vehicles"], [draft_content |-> ""]}
    \cup {[draft_content |-> d] : d \in Drafts}

\* response.content of the rewrite call: a new text, or one of the drafts
\* back unchanged.
VariantTexts == {"Plug in. Wake up full."} \cup Drafts

\* state.get(key, default)
DictGet(d, k, default) == IF k \in DOMAIN d THEN d[k] ELSE default

\* str.strip() on a text: newlines are its only whitespace tokens.
RECURSIVE LStrip(_)
LStrip(text) ==
    IF text # <<>> /\ Head(text) = NL THEN LStrip(Tail(text)) ELSE text

RECURSIVE RStrip(_)
RStrip(text) ==
    IF text # <<>> /\ text[Len(text)] = NL
    THEN RStrip(SubSeq(text, 1, Len(text) - 1))
    ELSE text

Strip(text) == RStrip(LStrip(text))

\* text.split("\n")[0]: the tokens before the first newline.
RECURSIVE FirstLine(_)
FirstLine(text) ==
    IF text = <<>> \/ Head(text) = NL THEN <<>>
    ELSE <<Head(text)>> \o FirstLine(Tail(text))

\* "Variant B" in line
Contains(line, label) == \E i \in DOMAIN line : line[i] = label

\* The try block of _simulate_audience_test once chain.ainvoke has answered
\* content: the pair (winner, text).
simulate_audience_test(content) ==
    LET text == Strip(content)
    IN <<IF Contains(FirstLine(text), "Variant B") THEN "Variant B" ELSE "Variant A",
         text>>

\* The except clause always falling back to the first label.
simulate_audience_test_fallback_first(winner) ==
    <<"Variant A", <<"API Error. Randomly selected ", "Variant A">>>>

\* The except clause of _simulate_audience_test for the label random.choice
\* picks.
simulate_audience_test_fallback(winner) ==
    <<winner, <<"API Error. Randomly selected ", winner>>>>

\* return {"ab_test_winner": "", "ab_test_logs": "No copy to test."}
NoCopyResult == [ab_test_winner |-> "", ab_test_logs |-> <<"No copy to test.">>]

\* The dict of run with the two texts exchanged.
RunResultExchanged(original_copy, variant_b, winner, rationale) ==
    [draft_content |-> IF winner = "Variant A" THEN variant_b ELSE original_copy,
     ab_test_logs |-> rationale,
     ab_test_winner |-> winner]

\* The dict run returns after the audience test.
RunResult(original_copy, variant_b, winner, rationale) ==
    [draft_content |-> IF winner = "Variant A" THEN original_copy ELSE variant_b,
     ab_test_logs |-> rationale,
     ab_test_winner |-> winner]

\* ABSimulatorNode before run is called.  state is the dict run is called
\* with, calls lists the model calls made, content is the answer of the
\* audience call and failed tells whether that call raised.
IdleSelector ==
    [pc |-> "idle", state |-> [key \in {} |-> ""], original_copy |-> "",
     variant_b |-> "", calls |-> <<>>, content |-> <<>>, failed |-> FALSE,
     result |-> None]

\* ---------------------------------------------------------------- mock copywriter
\* Field values a WorkflowState may carry into _run_copywriter_mock:
\* content_type is any string.
Topics == {"Electric Vehicles", "Solar Roof Tiles"}

Audiences == {"Urban commuters", "Homeowners"}

Tones == {"casual", "professional"}

KnownContentTypes == {"blog_post", "social_media", "email", "ad"}

ContentTypes == KnownContentTypes \cup {"webinar", "", "BLOG_POST"}

\* No call of _run_copywriter_mock has been made.
IdleMockCall ==
    [state |-> WorkflowState("", "", "professional", "blog_post"), result |-> None]

\* The store and the workflow right after import of the router module.
Constructed ==
    /\ campaigns_db = {}
    /\ objects = [i \in CampaignIds |-> NoObject]
    /\ next_id = 1
    /\ runs = [r \in RunIds |-> IdleRun]
    /\ response = NoResponse

\* Concurrent requests: the backend, when configured, is healthy or fails
\* with one kind of exception throughout.
Init ==
    /\ llm \in BOOLEAN
    /\ backend_errors \in IF llm THEN {{}} \cup {{m} : m \in ExcMessages} ELSE {{}}
    /\ Constructed
    /\ selector = IdleSelector
    /\ mock_call = IdleMockCall

\* One request at a time: every model call may raise any of the exceptions.
InitWorkflow ==
    /\ llm \in BOOLEAN
    /\ backend_errors = IF llm THEN ExcMessages ELSE {}
    /\ Constructed
    /\ selector = IdleSelector
    /\ mock_call = IdleMockCall

\* ---------------------------------------------------------------- the API
\* An identifier generator that hands out the lowest identifier not stored.
LowestUnusedId ==
    CHOOSE i \in CampaignIds :
        i \notin campaigns_db /\ \A j \in CampaignIds : j \notin campaigns_db => i <= j

\* str(uuid.uuid4()): an identifier no earlier call has returned.
uuid4 == next_id

create_campaign(campaign) ==
    /\ response = NoResponse
    /\ next_id \in CampaignIds
    /\ objects' = [objects EXCEPT ![uuid4] = NewCampaign(uuid4, campaign)]
    /\ campaigns_db' = campaigns_db \cup {uuid4}
    /\ next_id' = next_id + 1
    /\ response' = Ok("create", uuid4, "", {CampaignResponse(NewCampaign(uuid4, campaign))})
    /\ UNCHANGED <<selector, mock_call, llm, backend_errors, runs>>

list_campaigns ==
    /\ response = NoResponse
    /\ response' = Ok("list", 0, "", {CampaignResponse(objects[i]) : i \in campaigns_db})
    /\ UNCHANGED <<selector, mock_call, llm, backend_errors, campaigns_db, objects, next_id, runs>>

\* get_campaign without the membership check.
get_campaign_unchecked(campaign_id) ==
    /\ response = NoResponse
    /\ response' = Ok("get", campaign_id, "", {CampaignResponse(objects[campaign_id])})
    /\ UNCHANGED <<selector, mock_call, llm, backend_errors, campaigns_db, objects, next_id, runs>>

get_campaign(campaign_id) ==
    /\ response = NoResponse
    /\ response' = IF campaign_id \notin campaigns_db
                   THEN HTTPException("get", campaign_id, "", "Campaign not found")
                   ELSE Ok("get", campaign_id, "", {CampaignResponse(objects[campaign_id])})
    /\ UNCHANGED <<selector, mock_call, llm, backend_errors, campaigns_db, objects, next_id, runs>>

\* next((s for s in campaign["stages"] if s["agent"] == stage), None)
StageData(campaign, stage) ==
    LET hits == {i \in DOMAIN campaign.stages : campaign.stages[i].agent = stage}
    IN IF hits = {} THEN None
       ELSE Some(campaign.stages[CHOOSE i \in hits : \A j \in hits : i <= j])

get_stage_output(campaign_id, stage) ==
    /\ response = NoResponse
    /\ response' = IF campaign_id \notin campaigns_db
                   THEN HTTPException("stage", campaign_id, stage, "Campaign not found")
                   ELSE IF ~TruthyDict(StageData(objects[campaign_id], stage))
                   THEN HTTPException("stage", campaign_id, stage, "Stage not found")
                   ELSE Ok("stage", campaign_id, stage, StageData(objects[campaign_id], stage))
    /\ UNCHANGED <<selector, mock_call, llm, backend_errors, campaigns_db, objects, next_id, runs>>

delete_campaign(campaign_id) ==
    /\ response = NoResponse
    /\ IF campaign_id \notin campaigns_db
       THEN /\ response' = HTTPException("delete", campaign_id, "", "Campaign not found")
            /\ UNCHANGED campaigns_db
       ELSE /\ campaigns_db' = campaigns_db \ {campaign_id}
            /\ response' = Ok("delete", campaign_id, "", {[message |-> "Campaign deleted"]})
    /\ UNCHANGED <<selector, mock_call, llm, backend_errors, objects, next_id, runs>>

\* ---------------------------------------------------------------- execute
\* The slot the next accepted execute request runs in (a behaviour has at most
\* MaxRuns execute requests that find their campaign).
FreeSlot(r) == runs[r].pc = "idle" /\ \A q \in RunIds : q < r => runs[q].pc # "idle"

\* execute_campaign with a guard that turns away a campaign whose execute is
\* still in flight.
execute_campaign_one_at_a_time(campaign_id) ==
    /\ response = NoResponse
    /\ IF campaign_id \notin campaigns_db
       THEN /\ response' = HTTPException("execute", campaign_id, "", "Campaign not found")
            /\ UNCHANGED <<selector, mock_call, llm, backend_errors, campaigns_db, objects, next_id, runs>>
       ELSE IF \E q \in RunIds : runs[q].campaign = campaign_id /\ runs[q].pc \notin {"idle", "done"}
       THEN /\ response' = [HTTPException("execute", campaign_id, "", "Campaign is running")
                               EXCEPT !.status_code = 409]
            /\ UNCHANGED <<selector, mock_call, llm, backend_errors, campaigns_db, objects, next_id, runs>>
       ELSE \E r \in RunIds :
            /\ FreeSlot(r)
            /\ objects' = [objects EXCEPT ![campaign_id].status = "running"]
            /\ runs' = [runs EXCEPT ![r] =
                   [IdleRun EXCEPT !.pc = "enter", !.campaign = campaign_id,
                        !.state = WorkflowState(objects[campaign_id].topic,
                                                objects[campaign_id].target_audience,
                                                objects[campaign_id].tone,
                                                objects[campaign_id].content_type)]]
            /\ UNCHANGED <<selector, mock_call, llm, backend_errors, campaigns_db, next_id, response>>

\* execute_campaign up to the call of workflow.execute: the 404 check, status
\* "running", and the initial WorkflowState built from the campaign's fields.
execute_campaign(campaign_id) ==
    /\ response = NoResponse
    /\ IF campaign_id \notin campaigns_db
       THEN /\ response' = HTTPException("execute", campaign_id, "", "Campaign not found")
            /\ UNCHANGED <<selector, mock_call, llm, backend_errors, campaigns_db, objects, next_id, runs>>
       ELSE \E r \in RunIds :
            /\ FreeSlot(r)
            /\ objects' = [objects EXCEPT ![campaign_id].status = "running"]
            /\ runs' = [runs EXCEPT ![r] =
                   [IdleRun EXCEPT !.pc = "enter", !.campaign = campaign_id,
                        !.state = WorkflowState(objects[campaign_id].topic,
                                                objects[campaign_id].target_audience,
                                                objects[campaign_id].tone,
                                                objects[campaign_id].content_type)]]
            /\ UNCHANGED <<selector, mock_call, llm, backend_errors, campaigns_db, next_id, response>>

\* A node call has ended with res: the graph merges the returned state and
\* follows the node's edge, or the exception leaves graph.ainvoke.
AfterNode(run, res) ==
    IF res.raised
    THEN [run EXCEPT !.pc = "RAISED", !.exc = res.msg]
    ELSE [run EXCEPT !.state = res.state,
                     !.events = Append(@, <<"return", run.node>>),
                     !.node = Edge(run.node),
                     !.pc = IF Edge(run.node) = END THEN "END" ELSE "enter"]

\* The nodes calling their model-backed executor whether or not self.llm is set.
EnterNodeModelBacked(run) ==
    LET n == run.node
        st == run.state
        in == [run EXCEPT !.events = Append(@, <<"enter", n>>)]
        called == [in EXCEPT !.events = Append(@, <<"invoke", n>>)]
        failed == [called EXCEPT !.events = Append(@, <<"raise", n>>)]
    IN IF ShortCircuit(n, st)
       THEN AfterNode(in, NodeReturn(CannotProceed(n, st)))
       ELSE IF RaisesBeforeCall(n, st)
       THEN AfterNode(failed, NodeBody(n, st, Raised(AttributeErrorMsg)))
       ELSE [called EXCEPT !.pc = "await", !.events = Append(@, <<"call", n>>)]

\* The graph enters the run's next node: the node returns at once (its early
\* return, its mock executor, or an executor that raises before its model
\* call) or suspends at chain.ainvoke.
EnterNode(run) ==
    LET n == run.node
        st == run.state
        in == [run EXCEPT !.events = Append(@, <<"enter", n>>)]
        called == [in EXCEPT !.events = Append(@, <<"invoke", n>>)]
        failed == [called EXCEPT !.events = Append(@, <<"raise", n>>)]
    IN IF ShortCircuit(n, st)
       THEN AfterNode(in, NodeReturn(CannotProceed(n, st)))
       ELSE IF ~llm
       THEN AfterNode(called, NodeBody(n, st, MockExecutor(n, st)))
       ELSE IF RaisesBeforeCall(n, st)
       THEN AfterNode(failed, NodeBody(n, st, Raised(AttributeErrorMsg)))
       ELSE [called EXCEPT !.pc = "await", !.events = Append(@, <<"call", n>>)]

\* graph.ainvoke runs node after node, each on the state its predecessor
\* returned, until a node suspends at its model call or the graph ends.
RECURSIVE RunGraph(_)
RunGraph(run) == IF run.pc = "enter" THEN RunGraph(EnterNode(run)) ELSE run

\* The event loop resumes graph.ainvoke of a request that has just started.
graph_step(r) ==
    /\ response = NoResponse
    /\ runs[r].pc = "enter"
    /\ runs' = [runs EXCEPT ![r] = RunGraph(runs[r])]
    /\ UNCHANGED <<selector, mock_call, llm, backend_errors, campaigns_db, objects, next_id, response>>

\* chain.ainvoke answers or raises; the executor builds its dict (the answer
\* is shorter than the 500 characters response.content[:500] keeps), the
\* node returns and the graph runs on to the next suspension.
model_returns(r) ==
    /\ response = NoResponse
    /\ runs[r].pc = "await"
    /\ \E o \in ModelOutcomes(backend_errors) :
         LET run == runs[r]
             out == IF o.raised THEN Raised(o.text)
                    ELSE LLMExecutor(run.node, run.state, o.text)
             now == IF o.raised
                    THEN [run EXCEPT !.events = Append(@, <<"raise", run.node>>)]
                    ELSE run
         IN runs' = [runs EXCEPT ![r] =
                RunGraph(AfterNode(now, NodeBody(run.node, run.state, out)))]
    /\ UNCHANGED <<selector, mock_call, llm, backend_errors, campaigns_db, objects, next_id, response>>

\* for i, stage in enumerate(campaign["stages"]): copy the result back
UpdateStage(stage, result) ==
    IF TruthyDict(Get(result, stage.agent))
    THEN [stage EXCEPT !.status = "completed",
                       !.output = result[stage.agent],
                       !.completed_at = Some(Timestamp)]
    ELSE stage

\* execute_campaign without the assignment of campaign["final_content"].
ExecutedWithoutFinalContent(campaign, run) ==
    IF run.pc = "RAISED"
    THEN [campaign EXCEPT !.status = "failed", !.error = Some(run.exc)]
    ELSE [campaign EXCEPT !.status = "completed"]

\* The campaign dict after the try/except of execute_campaign.
Executed(campaign, run) ==
    IF run.pc = "RAISED"
    THEN [campaign EXCEPT !.status = "failed", !.error = Some(run.exc)]
    ELSE [campaign EXCEPT
            !.stages = [i \in DOMAIN campaign.stages |->
                            UpdateStage(campaign.stages[i], Result(run.state))],
            !.final_content = Get(Result(run.state), "final_content"),
            !.status = "completed"]

\* A finished request: only the campaign it ran for is kept.
DoneRun(run) == [IdleRun EXCEPT !.pc = "done", !.campaign = run.campaign]

\* execute_campaign storing its dict under campaign_id again before it returns.
execute_finish_storing(r) ==
    /\ response = NoResponse
    /\ runs[r].pc \in {"END", "RAISED"}
    /\ objects' = [objects EXCEPT ![runs[r].campaign] = Executed(@, runs[r])]
    /\ campaigns_db' = campaigns_db \cup {runs[r].campaign}
    /\ response' = Ok("execute", runs[r].campaign, "",
                      {CampaignResponse(Executed(objects[runs[r].campaign], runs[r]))})
    /\ runs' = [runs EXCEPT ![r] = DoneRun(@)]
    /\ UNCHANGED <<selector, mock_call, llm, backend_errors, next_id>>

\* execute_campaign after workflow.execute has returned or raised; the dict it
\* writes to is the one it fetched, whether or not its key is still stored.
execute_finish(r) ==
    /\ response = NoResponse
    /\ runs[r].pc \in {"END", "RAISED"}
    /\ objects' = [objects EXCEPT ![runs[r].campaign] = Executed(@, runs[r])]
    /\ response' = Ok("execute", runs[r].campaign, "",
                      {CampaignResponse(Executed(objects[runs[r].campaign], runs[r]))})
    /\ runs' = [runs EXCEPT ![r] = DoneRun(@)]
    /\ UNCHANGED <<selector, mock_call, llm, backend_errors, campaigns_db, next_id>>

\* The server writes the handler's return value (or its HTTPException) to the
\* client; the event loop takes up the next piece of work after that.
send_response ==
    /\ response # NoResponse
    /\ response' = NoResponse
    /\ UNCHANGED <<selector, mock_call, llm, backend_errors, campaigns_db, objects, next_id, runs>>

\* The event loop runs one handler, or one resumed coroutine, up to its next
\* suspension (each is enabled once the previous response has been sent).
Next ==
    \/ \E c \in CreateBodies : create_campaign(c)
    \/ list_campaigns
    \/ \E id \in CampaignIds : get_campaign(id)
    \/ \E id \in CampaignIds : execute_campaign(id)
    \/ \E id \in CampaignIds, stage \in StageNames : get_stage_output(id, stage)
    \/ \E id \in CampaignIds : delete_campaign(id)
    \/ \E r \in RunIds : graph_step(r)
    \/ \E r \in RunIds : model_returns(r)
    \/ \E r \in RunIds : execute_finish(r)
    \/ send_response

Spec == Init /\ [][Next]_vars

\* A single client that creates one campaign and executes it, one request
\* after the other.
InFlight(r) == runs[r].pc \notin {"idle", "done"}

NextWorkflow ==
    \/ \E c \in CreateBodies : next_id = 1 /\ create_campaign(c)
    \/ /\ 1 \in campaigns_db
       /\ \A r \in RunIds : ~InFlight(r)
       /\ execute_campaign(1)
    \/ \E r \in RunIds : graph_step(r)
    \/ \E r \in RunIds : model_returns(r)
    \/ \E r \in RunIds : execute_finish(r)
    \/ send_response

SpecWorkflow == InitWorkflow /\ [][NextWorkflow]_vars

\* One campaign and its clients: executes of the campaign overlap with each
\* other and with a get or a delete of it.
NextConcurrent ==
    \/ \E c \in CreateBodies : next_id = 1 /\ create_campaign(c)
    \/ execute_campaign(1)
    \/ get_campaign(1)
    \/ delete_campaign(1)
    \/ \E r \in RunIds : graph_step(r)
    \/ \E r \in RunIds : model_returns(r)
    \/ \E r \in RunIds : execute_finish(r)
    \/ send_response

SpecConcurrent == Init /\ [][NextConcurrent]_vars

\* ---------------------------------------------------------------- A/B selector run
\* `if not original_copy` with the check left out.
NotNever(original_copy) == FALSE

\* not original_copy
Not(original_copy) == original_copy = ""

\* run up to its first suspension: the early return for a missing or empty
\* draft, or the call of _generate_variant.
ab_run(state) ==
    /\ selector.pc = "idle"
    /\ LET original_copy == DictGet(state, "draft_content", "")
       IN selector' =
            IF Not(original_copy)
            THEN [selector EXCEPT !.pc = "done", !.state = state,
                                  !.result = Some(NoCopyResult)]
            ELSE [selector EXCEPT !.pc = "generate", !.state = state,
                                  !.original_copy = original_copy,
                                  !.calls = Append(@, "_generate_variant")]
    /\ UNCHANGED <<llm, backend_errors, campaigns_db, objects, next_id, runs, response,
                   mock_call>>

\* The rewrite call answers content and run goes on to the audience test, or
\* the call raises: _generate_variant has no handler and neither has run.
generate_variant_returns ==
    /\ selector.pc = "generate"
    /\ \/ \E content \in VariantTexts :
            selector' = [selector EXCEPT !.pc = "simulate",
                                         !.variant_b = content,
                                         !.calls = Append(@, "_simulate_audience_test")]
       \/ selector' = [selector EXCEPT !.pc = "RAISED"]
    /\ UNCHANGED <<llm, backend_errors, campaigns_db, objects, next_id, runs, response,
                   mock_call>>

\* run after _simulate_audience_test has returned the pair (winner, rationale).
Selected(sel, pair) ==
    [sel EXCEPT !.pc = "done",
                !.result = Some(RunResult(sel.original_copy, sel.variant_b,
                                          pair[1], pair[2]))]

\* The audience call answers content, or it raises and random.choice picks.
simulate_audience_test_returns ==
    /\ selector.pc = "simulate"
    /\ \/ \E content \in AudienceTexts :
            selector' = Selected([selector EXCEPT !.content = content],
                                 simulate_audience_test(content))
       \/ \E winner \in Labels :
            selector' = Selected([selector EXCEPT !.failed = TRUE],
                                 simulate_audience_test_fallback(winner))
    /\ UNCHANGED <<llm, backend_errors, campaigns_db, objects, next_id, runs, response,
                   mock_call>>

InitAB ==
    /\ llm = TRUE
    /\ backend_errors = {}
    /\ Constructed
    /\ selector = IdleSelector
    /\ mock_call = IdleMockCall

NextAB ==
    \/ \E state \in SelectorStates : ab_run(state)
    \/ generate_variant_returns
    \/ simulate_audience_test_returns

SpecAB == InitAB /\ [][NextAB]_vars

\* ---------------------------------------------------------------- mock copywriter call
\* A WorkflowState reaches the mock Copywriter with any field values.
InitMock ==
    /\ llm = FALSE
    /\ backend_errors = {}
    /\ Constructed
    /\ selector = IdleSelector
    /\ mock_call \in {[state |-> WorkflowState(topic, audience, tone, content_type),
                       result |-> None] :
                          topic \in Topics, audience \in Audiences, tone \in Tones,
                          content_type \in ContentTypes}

\* _copywriter_node calls self._run_copywriter_mock(state)
copywriter_mock_call ==
    /\ mock_call.result = None
    /\ mock_call' = [mock_call EXCEPT !.result = Some(run_copywriter_mock(mock_call.state))]
    /\ UNCHANGED <<llm, backend_errors, campaigns_db, objects, next_id, runs, response,
                   selector>>

NextMock == copywriter_mock_call

SpecMock == InitMock /\ [][NextMock]_vars

\* ---------------------------------------------------------------- properties
Range(seq) == {seq[i] : i \in DOMAIN seq}

IsPrefix(a, b) == Len(a) <= Len(b) /\ SubSeq(b, 1, Len(a)) = a

IsNodeEvent(e) == e[1] \in {"enter", "return"}

\* The calls and returns of the nodes of a run, in the order they happened.
NodeEvents(run) == SelectSeq(run.events, IsNodeEvent)

StrictOrder ==
    <<<<"enter", "researcher">>, <<"return", "researcher">>,
      <<"enter", "copywriter">>, <<"return", "copywriter">>,
      <<"enter", "designer">>, <<"return", "designer">>,
      <<"enter", "reviewer">>, <<"return", "reviewer">>>>

StageOutput(state, n) ==
    CASE n = "researcher" -> state.research
      [] n = "copywriter" -> state.copy
      [] n = "designer" -> state.design
      [] n = "reviewer" -> state.review

StageError(state, n) ==
    CASE n = "researcher" -> state.research_error
      [] n = "copywriter" -> state.copy_error
      [] n = "designer" -> state.design_error
      [] n = "reviewer" -> state.review_error

\* C1: in every run the node calls and returns so far are a prefix of
\* enter/return Research, Copywrite, Design, Review (so each node is entered
\* once, after its predecessor returned, and at most one node is active); a
\* run suspended at a model call is inside the node entered last; a run that
\* has ended has gone through all four, Review last.
C1_StagesInStrictOrder ==
    \A r \in RunIds :
        LET ne == NodeEvents(runs[r])
        IN /\ IsPrefix(ne, StrictOrder)
           /\ runs[r].pc = "await" =>
                 /\ ne # <<>>
                 /\ ne[Len(ne)] = <<"enter", runs[r].node>>
           /\ runs[r].pc = "END" => ne = StrictOrder

\* A model-backed run has ended after an upstream failure: the downstream
\* nodes were entered in order although they did no work.
C1_Witness ==
    \E r \in RunIds :
        /\ runs[r].pc = "END"
        /\ llm
        /\ runs[r].state.copy_error = Some("Cannot write without research")
        /\ Len(NodeEvents(runs[r])) = 8

Invoked(run, n) == <<"invoke", n>> \in Range(run.events)

\* C2: at the end of a run, a stage that has recorded an error (whatever its
\* text) leaves every downstream stage with its fixed cannot-proceed error and
\* an executor that was never invoked, and a Research error leaves no
\* final-content record.
C2_ErrorSkipsDownstream ==
    \A r \in RunIds :
        LET st == runs[r].state
            SkippedCopy == /\ st.copy_error = Some("Cannot write without research")
                           /\ ~Invoked(runs[r], "copywriter")
            SkippedDesign == /\ st.design_error = Some("Cannot design without copy")
                             /\ ~Invoked(runs[r], "designer")
            SkippedReview == /\ st.review_error = Some("Cannot review without design")
                             /\ ~Invoked(runs[r], "reviewer")
        IN runs[r].pc = "END" =>
             /\ st.research_error # None =>
                   SkippedCopy /\ SkippedDesign /\ SkippedReview /\ st.final_content = None
             /\ st.copy_error # None => SkippedDesign /\ SkippedReview
             /\ st.design_error # None => SkippedReview

ExecutorRaised(run, n) == <<"raise", n>> \in Range(run.events)

\* C3: no exception leaves a node or workflow.execute (no request is in the
\* raised position and no campaign is failed), an executor's exception is
\* recorded as its own stage's error, and a run that has ended returns the
\* map of research, copy, design, review and final_content.
C3_ExecuteNeverRaises ==
    /\ \A r \in RunIds :
         /\ runs[r].pc # "RAISED"
         /\ \A n \in Nodes :
               ExecutorRaised(runs[r], n) => StageError(runs[r].state, n) # None
         /\ runs[r].pc = "END" =>
               DOMAIN Result(runs[r].state)
                   = {"research", "copy", "design", "review", "final_content"}
    /\ \A id \in CampaignIds : objects[id].status # "failed"

\* A run has ended in which the executors of all four stages raised.
C3_Witness ==
    \E r \in RunIds :
        /\ runs[r].pc = "END"
        /\ \A n \in Nodes : ExecutorRaised(runs[r], n)

\* The key of the coordinator's result that holds the output of an agent.
ResultKey(agent) ==
    CASE agent = "researcher" -> "research"
      [] agent = "copywriter" -> "copy"
      [] agent = "designer" -> "design"
      [] agent = "reviewer" -> "review"

\* The step in which execute_campaign of run r processes the coordinator's
\* outcome and returns.
Returns(r) == runs[r].pc \in {"END", "RAISED"} /\ runs'[r].pc = "done"

\* C4: when the API execute returns, every Stage record whose stage has an
\* output in the coordinator's result has status completed, that output, and
\* a completion timestamp.
C4_StageRecordsCompleted ==
    [][\A r \in RunIds :
          Returns(r) /\ runs[r].pc = "END" =>
             \A i \in 1..4 :
                LET stage == objects'[runs[r].campaign].stages[i]
                    output == Result(runs[r].state)[ResultKey(stage.agent)]
                IN output # None =>
                      /\ stage.status = "completed"
                      /\ stage.output = output
                      /\ stage.completed_at # None]_vars

ExecuteInFlight(id) == \E r \in RunIds : InFlight(r) /\ runs[r].campaign = id

ExecuteReturned(id) == \E r \in RunIds : runs[r].pc = "done" /\ runs[r].campaign = id

StageFailed(state) == \E n \in Nodes : StageError(state, n) # None

\* C5: an accepted execute sets the status to running before the coordinator
\* starts; when execute returns the status is completed if the coordinator
\* returned and failed if it raised; a campaign an execute has returned for,
\* with no other execute in flight, is completed or failed; a run whose
\* stages failed inside the coordinator leaves the campaign completed with
\* final_content null.
C5_StatusLifecycle ==
    [][/\ \A r \in RunIds :
            runs[r].pc = "idle" /\ runs'[r].pc = "enter" =>
                /\ objects'[runs'[r].campaign].status = "running"
                /\ runs'[r].events = <<>>
       /\ \A r \in RunIds :
            Returns(r) =>
                LET campaign == objects'[runs[r].campaign]
                IN /\ campaign.status =
                         IF runs[r].pc = "RAISED" THEN "failed" ELSE "completed"
                   /\ runs[r].pc = "END" /\ StageFailed(runs[r].state) =>
                         /\ campaign.status = "completed"
                         /\ campaign.final_content = None
       /\ \A id \in CampaignIds :
            ExecuteReturned(id) /\ ~ExecuteInFlight(id) =>
                objects[id].status \in {"completed", "failed"}]_vars

NoStageFailed(state) == \A n \in Nodes : StageError(state, n) = None

\* C6: at the end of a run in which no stage recorded an error, final_content
\* has the Copywriter's headline, body and call_to_action, the Designer's
\* suggestions and the Reviewer's score, feedback and approved.
C6_FinalContentFromStages ==
    \A r \in RunIds :
        LET st == runs[r].state
        IN runs[r].pc = "END" /\ NoStageFailed(st) =>
             /\ st.final_content # None
             /\ st.copy # None /\ st.design # None /\ st.review # None
             /\ LET fc == TheValue(st.final_content)
                    copy == TheValue(st.copy)
                    design == TheValue(st.design)
                    review == TheValue(st.review)
                IN /\ fc.headline = copy.headline
                   /\ fc.body = copy.body
                   /\ fc.call_to_action = copy.call_to_action
                   /\ fc.visual_suggestions = design.suggestions
                   /\ fc.review_score = review.score
                   /\ fc.review_feedback = review.feedback
                   /\ fc.approved = review.approved

\* A model-backed run has ended with no stage error.
C6_Witness ==
    \E r \in RunIds :
        /\ runs[r].pc = "END"
        /\ llm
        /\ NoStageFailed(runs[r].state)
        /\ runs[r].state.final_content # None

\* C7: in the result of a run that has ended, final_content is present
\* exactly when the Review stage succeeded (review present, no review error),
\* and it is null whenever the Review stage recorded an error.
C7_FinalContentIffReview ==
    \A r \in RunIds :
        LET result == Result(runs[r].state)
            review_error == runs[r].state.review_error
        IN runs[r].pc = "END" =>
             /\ result.final_content # None
                    <=> (result.review # None /\ review_error = None)
             /\ review_error # None => result.final_content = None

\* A run has ended whose model review call answered, but whose Review stage
\* failed while it assembled final_content.
C7_Witness ==
    \E r \in RunIds :
        /\ runs[r].pc = "END"
        /\ <<"call", "reviewer">> \in Range(runs[r].events)
        /\ ~ExecutorRaised(runs[r], "reviewer")
        /\ runs[r].state.review_error = Some(AttributeErrorMsg)
        /\ runs[r].state.final_content = None

\* C8: without a model credential, an execute that finds its campaign returns
\* it with status completed and a final_content that is approved with
\* review_score 8.
C8_MockExecuteApproved ==
    ~llm /\ response.op = "execute" /\ response.status_code = 200 =>
        \A campaign \in response.body :
            /\ campaign.status = "completed"
            /\ campaign.final_content # None
            /\ \A fc \in campaign.final_content :
                  fc.approved = TRUE /\ fc.review_score = 8

\* Without a model credential, an execute has returned its campaign.
C8_Witness ==
    /\ ~llm
    /\ response.op = "execute"
    /\ response.status_code = 200
    /\ response.body # {}
    /\ response.id \in campaigns_db

\* An identifier create_campaign has handed out and that is no longer stored.
Deleted(id) == id < next_id /\ id \notin campaigns_db

\* A handler answers a request of kind op on id in this step (the return of an
\* execute that was in flight is not such a step).
Answers(op, id) ==
    /\ response = NoResponse
    /\ response'.op = op
    /\ response'.id = id
    /\ runs' = runs

\* An execute on id is accepted in this step and its workflow starts.
Starts(id) ==
    \E r \in RunIds :
        runs[r].pc = "idle" /\ runs'[r].pc = "enter" /\ runs'[r].campaign = id

\* C9: delete of an absent identifier answers not-found and changes nothing;
\* delete of a stored identifier removes that key and leaves every other
\* record as it was; a deleted identifier never comes back, and every later
\* get, execute, stage lookup or delete on it answers not-found.
C9_DeleteIsFinal ==
    [][\A id \in CampaignIds :
          /\ Answers("delete", id) =>
                IF id \notin campaigns_db
                THEN /\ response'.status_code = 404
                     /\ campaigns_db' = campaigns_db
                     /\ objects' = objects
                ELSE /\ response'.status_code = 200
                     /\ campaigns_db' = campaigns_db \ {id}
                     /\ \A other \in campaigns_db' : objects'[other] = objects[other]
          /\ Deleted(id) =>
                /\ id \notin campaigns_db'
                /\ ~Starts(id)
                /\ \A op \in {"get", "execute", "stage", "delete"} :
                      Answers(op, id) => response'.status_code = 404]_vars

\* A get on a deleted identifier has answered not-found while another
\* campaign is still stored.
C9_Witness ==
    /\ response.op = "get"
    /\ response.status_code = 404
    /\ Deleted(response.id)
    /\ campaigns_db # {}

\* C10: get, execute and stage lookup on an identifier that is not stored
\* answer 404 'Campaign not found', leave the store and every record as they
\* were and start no workflow; a stage lookup on a stored campaign for a name
\* that is none of its stages answers 404 'Stage not found'.
C10_NotFound ==
    [][\A id \in CampaignIds :
          /\ id \notin campaigns_db =>
                /\ ~Starts(id)
                /\ \A op \in {"get", "execute", "stage"} :
                      Answers(op, id) =>
                         /\ response'.status_code = 404
                         /\ response'.detail = "Campaign not found"
                         /\ campaigns_db' = campaigns_db
                         /\ objects' = objects
          /\ /\ id \in campaigns_db
             /\ Answers("stage", id)
             /\ \A i \in 1..4 : objects[id].stages[i].agent # response'.stage
             => /\ response'.status_code = 404
                /\ response'.detail = "Stage not found"]_vars

\* An execute on an identifier that is not stored has answered not-found
\* while a campaign is stored and a request slot is free.
C10_Witness ==
    /\ response.op = "execute"
    /\ response.status_code = 404
    /\ response.detail = "Campaign not found"
    /\ campaigns_db # {}
    /\ \E r \in RunIds : runs[r].pc = "idle"

\* C11: create adds exactly one record, under an identifier that was neither
\* stored nor handed out before, with status pending, final_content null and
\* four Stage records researcher, copywriter, designer, reviewer, each pending
\* with null output; every other record and the rest of the store stay as
\* they were, and the returned record is the stored one.
C11_CreateAddsPendingRecord ==
    [][\A id \in CampaignIds :
          Answers("create", id) =>
             LET campaign == objects'[id]
             IN /\ id \notin campaigns_db
                /\ objects[id] = NoObject
                /\ campaigns_db' = campaigns_db \cup {id}
                /\ campaign.id = id
                /\ campaign.status = "pending"
                /\ campaign.final_content = None
                /\ [i \in DOMAIN campaign.stages |-> campaign.stages[i].agent]
                       = <<"researcher", "copywriter", "designer", "reviewer">>
                /\ \A i \in DOMAIN campaign.stages :
                      /\ campaign.stages[i].status = "pending"
                      /\ campaign.stages[i].output = None
                /\ \A other \in CampaignIds \ {id} : objects'[other] = objects[other]
                /\ response'.status_code = 200
                /\ response'.body = {CampaignResponse(campaign)}]_vars

\* A create has returned its record while an earlier campaign, already
\* executed, is stored.
C11_Witness ==
    /\ response.op = "create"
    /\ response.status_code = 200
    /\ response.id \in campaigns_db
    /\ \E other \in campaigns_db \ {response.id} : objects[other].status = "completed"

\* Run r is suspended at a model call.
Suspended(r) == runs[r].pc = "await"

\* C12: an execute of a stored campaign is never turned away, whether or not
\* another execute of it is suspended at a model call (with a request slot
\* free it can start, and the only refusal is not-found); the execute that
\* starts sets status running and leaves the runs in flight as they are;
\* each run goes through all four nodes and, when it returns, writes status
\* completed and its own final_content to the campaign's record without
\* touching the other runs.
C12_ConcurrentExecutes ==
    [][\A id \in CampaignIds :
          /\ /\ id \in campaigns_db
             /\ response = NoResponse
             /\ \E r \in RunIds : runs[r].pc = "idle"
             /\ \E q \in RunIds : Suspended(q) /\ runs[q].campaign = id
             => ENABLED (execute_campaign(id) /\ Starts(id))
          /\ Answers("execute", id) =>
                id \notin campaigns_db /\ response'.status_code = 404
          /\ Starts(id) =>
                /\ objects'[id].status = "running"
                /\ \A q \in RunIds : InFlight(q) => runs'[q] = runs[q]
          /\ \A r \in RunIds :
                Returns(r) /\ runs[r].campaign = id =>
                   /\ NodeEvents(runs[r]) = StrictOrder
                   /\ objects'[id].status = "completed"
                   /\ objects'[id].final_content = runs[r].state.final_content
                   /\ \A q \in RunIds \ {r} : runs'[q] = runs[q]]_vars

\* The campaign's status is completed while an execute of it, accepted
\* before the other execute of it returned, is still suspended at a model call.
C12_Witness ==
    \E id \in campaigns_db, r \in RunIds, q \in RunIds :
        /\ objects[id].status = "completed"
        /\ Suspended(r) /\ runs[r].campaign = id
        /\ runs[q].pc = "done" /\ runs[q].campaign = id

\* The selector was called with a draft that is not empty.
HasCopy(sel) == sel.pc # "idle" /\ DictGet(sel.state, "draft_content", "") # ""

\* C13: with a non-empty draft, when the audience call raises, run still
\* returns: while the call is pending each of the two labels can come out of
\* the failure, and a result reached through the failure has a winner among
\* 'Variant A' and 'Variant B' and the log 'API Error. Randomly selected
\* <winner>'.
C13_RandomFallback ==
    /\ selector.pc = "simulate" =>
          \A label \in Labels :
             ENABLED (/\ simulate_audience_test_returns
                      /\ selector'.failed
                      /\ selector'.pc = "done"
                      /\ TheValue(selector'.result).ab_test_winner = label)
    /\ selector.failed =>
          /\ HasCopy(selector)
          /\ selector.pc = "done"
          /\ selector.result # None
          /\ LET result == TheValue(selector.result)
             IN /\ result.ab_test_winner \in {"Variant A", "Variant B"}
                /\ result.ab_test_logs
                      = <<"API Error. Randomly selected ", result.ab_test_winner>>

\* The audience call has raised and the random choice fell on Variant B.
C13_Witness ==
    /\ selector.pc = "done"
    /\ selector.failed
    /\ TheValue(selector.result).ab_test_winner = "Variant B"

\* The positions of the labels in a text.
LabelPositions(text) == {i \in DOMAIN text : text[i] \in Labels}

\* The label that appears first in a text that mentions one.
FirstLabel(text) ==
    text[CHOOSE i \in LabelPositions(text) : \A j \in LabelPositions(text) : i <= j]

\* C14: when the audience call has answered, the winner is the label that
\* appears first in the answer, for every answer that mentions a label.
C14_WinnerIsFirstLabel ==
    /\ selector.pc = "done"
    /\ HasCopy(selector)
    /\ ~selector.failed
    /\ LabelPositions(selector.content) # {}
    => TheValue(selector.result).ab_test_winner = FirstLabel(selector.content)

\* C15: with a non-empty draft no model failure leaves run: the call never
\* ends in an exception, and a call that has ended has returned the winning
\* copy, a winner among the two labels, and a log.
C15_RunAlwaysReturns ==
    HasCopy(selector) =>
        /\ selector.pc # "RAISED"
        /\ selector.pc = "done" =>
              /\ selector.result # None
              /\ DOMAIN TheValue(selector.result)
                    = {"draft_content", "ab_test_winner", "ab_test_logs"}
              /\ TheValue(selector.result).ab_test_winner \in {"Variant A", "Variant B"}

\* C16: called with an empty or a missing draft, run returns winner "" and
\* the log 'No copy to test.' and nothing else, having made no model call.
C16_NoCopyNoCall ==
    selector.pc # "idle" /\ DictGet(selector.state, "draft_content", "") = "" =>
        /\ selector.pc = "done"
        /\ selector.calls = <<>>
        /\ selector.result
              = {[ab_test_winner |-> "", ab_test_logs |-> <<"No copy to test.">>]}

\* run has returned for a state whose draft is present and empty.
C16_Witness ==
    /\ selector.pc = "done"
    /\ "draft_content" \in DOMAIN selector.state
    /\ selector.state.draft_content = ""
    /\ selector.result # None

\* C20 as stated: with a non-empty draft, the returned draft_content is the
\* original copy exactly when the winner is 'Variant A' and the generated
\* variant exactly when it is 'Variant B'.
C20_CopyIffLabel ==
    selector.pc = "done" /\ HasCopy(selector) =>
        LET result == TheValue(selector.result)
        IN /\ result.draft_content = selector.original_copy
                 <=> result.ab_test_winner = "Variant A"
           /\ result.draft_content = selector.variant_b
                 <=> result.ab_test_winner = "Variant B"

\* C20 amended: with a non-empty draft the winner is one of the two labels,
\* the returned draft_content is the original copy when the winner is
\* 'Variant A' and the generated variant when it is 'Variant B', on the
\* answered and on the random path; the converse holds whenever the generated
\* variant differs from the original copy.
C20_CopyMatchesLabel ==
    selector.pc = "done" /\ HasCopy(selector) =>
        LET result == TheValue(selector.result)
        IN /\ result.ab_test_winner \in {"Variant A", "Variant B"}
           /\ result.ab_test_winner = "Variant A" =>
                 result.draft_content = selector.original_copy
           /\ result.ab_test_winner = "Variant B" =>
                 result.draft_content = selector.variant_b
           /\ selector.variant_b # selector.original_copy =>
                 /\ result.draft_content = selector.original_copy
                       => result.ab_test_winner = "Variant A"
                 /\ result.draft_content = selector.variant_b
                       => result.ab_test_winner = "Variant B"

\* The random path has picked Variant B and run has returned the rewritten
\* text, which differs from the draft.
C20_Witness ==
    /\ selector.pc = "done"
    /\ selector.failed
    /\ selector.variant_b # selector.original_copy
    /\ TheValue(selector.result).ab_test_winner = "Variant B"
    /\ TheValue(selector.result).draft_content = selector.variant_b

\* The number of model calls node n has made in a run.
Calls(run, n) == Cardinality({i \in DOMAIN run.events : run.events[i] = <<"call", n>>})

\* C17: without a model credential no run ever calls the model backend or
\* waits for it, and a run that has ended went through the executor of every
\* stage and has the outputs of all four stages, no stage error and a
\* final_content.
C17_MockNeverCallsModel ==
    ~llm =>
        \A r \in RunIds :
            /\ runs[r].pc # "await"
            /\ \A n \in Nodes : Calls(runs[r], n) = 0
            /\ runs[r].pc = "END" =>
                  /\ \A n \in Nodes :
                        /\ Invoked(runs[r], n)
                        /\ StageOutput(runs[r].state, n) # None
                        /\ StageError(runs[r].state, n) = None
                  /\ runs[r].state.final_content # None

\* Without a model credential a run has ended after all four executors ran.
C17_Witness ==
    /\ ~llm
    /\ \E r \in RunIds :
          /\ runs[r].pc = "END"
          /\ \A n \in Nodes : Invoked(runs[r], n)
          /\ runs[r].state.review # None

\* C18: the body the mock Copywriter returns is the template of the
\* content_type for blog_post, social_media, email and ad, and the
\* blog_post template, for the same topic, audience and tone, for every other
\* content_type.
C18_MockBodyTemplate ==
    mock_call.result # None =>
        LET state == mock_call.state
            body == TheValue(mock_call.result).body
            blog_post == "This is a comprehensive blog post about " \o state.topic
                         \o ". It's designed for " \o state.target_audience
                         \o " and written in a " \o state.tone \o " tone."
        IN CASE state.content_type = "blog_post" -> body = blog_post
             [] state.content_type = "social_media" ->
                   body = "* " \o state.topic \o "\\n\\nLearn more! #learn"
             [] state.content_type = "email" ->
                   body = "Subject: Discover " \o state.topic
                          \o "\\n\\nHi there,\\n\\nLet us share..."
             [] state.content_type = "ad" ->
                   body = "Get " \o state.topic \o " Now! Limited time offer."
             [] OTHER -> body = blog_post

\* The mock Copywriter has returned for a content_type that is none of the
\* four known ones.
C18_Witness ==
    /\ mock_call.result # None
    /\ mock_call.state.content_type = "webinar"
    /\ mock_call.state.tone = "casual"

\* C19: with a model credential, in one run each stage calls the model at
\* most once and there are at most four calls; in a run that has ended every
\* stage that was not short-circuited made exactly one call; and once a
\* stage's call has failed the run makes no further model call.
C19_OneCallNoRetry ==
    llm =>
        \A r \in RunIds :
            LET events == runs[r].events
            IN /\ \A n \in Nodes : Calls(runs[r], n) <= 1
               /\ Cardinality({i \in DOMAIN events : events[i][1] = "call"}) <= 4
               /\ runs[r].pc = "END" =>
                     \A n \in Nodes : Invoked(runs[r], n) => Calls(runs[r], n) = 1
               /\ \A i \in DOMAIN events, j \in DOMAIN events :
                     i < j /\ events[i][1] = "raise" => events[j][1] # "call"

\* C21: at the end of a run each of the four stages has exactly one of its
\* output and its error set (not None): never both and never neither.
C21_OutputXorError ==
    \A r \in RunIds :
        runs[r].pc = "END" =>
            \A n \in Nodes :
                (StageOutput(runs[r].state, n) # None)
                    <=> (StageError(runs[r].state, n) = None)

\* A model-backed run has ended with stages that returned, a stage whose
\* executor raised and a stage that was short-circuited.
C21_Witness ==
    \E r \in RunIds :
        /\ runs[r].pc = "END"
        /\ runs[r].state.research # None
        /\ runs[r].state.copy # None
        /\ ExecutorRaised(runs[r], "designer")
        /\ runs[r].state.review_error = Some("Cannot review without design")

\* C22: in the result of a run that has ended, copy is present only if
\* research is, design only if copy is, and review and final_content only if
\* design is, whatever the executors raised.
C22_SuccessfulStagesArePrefix ==
    \A r \in RunIds :
        LET result == Result(runs[r].state)
        IN runs[r].pc = "END" =>
              /\ result.copy # None => result.research # None
              /\ result.design # None => result.copy # None
              /\ result.review # None => result.design # None
              /\ result.final_content # None => result.design # None

\* C23: an execute that returns for a campaign whose key a delete has removed
\* meanwhile answers 200 with the campaign record and leaves the key absent;
\* a deleted key never comes back, and a get on it answers not-found.
C23_DeleteDuringExecute ==
    [][\A id \in CampaignIds :
          /\ \A r \in RunIds :
                Returns(r) /\ runs[r].campaign = id /\ id \notin campaigns_db =>
                   /\ campaigns_db' = campaigns_db
                   /\ response'.op = "execute"
                   /\ response'.id = id
                   /\ response'.status_code = 200
                   /\ \E campaign \in response'.body :
                         campaign.id = id /\ campaign.status \in {"completed", "failed"}
          /\ Deleted(id) =>
                /\ id \notin campaigns_db'
                /\ Answers("get", id) =>
                      /\ response'.status_code = 404
                      /\ response'.detail = "Campaign not found"]_vars

\* A model-backed execute has returned its campaign although the campaign's
\* key was deleted while the execute was in flight.
C23_Witness ==
    /\ llm
    /\ response.op = "execute"
    /\ response.status_code = 200
    /\ Deleted(response.id)
    /\ \E campaign \in response.body : campaign.status = "completed"

\* C24: the word_count the mock Copywriter reports is the length of the body
\* it returns, for every content_type.
C24_WordCountIsBodyLength ==
    mock_call.result # None =>
        TheValue(mock_call.result).word_count = Len(TheValue(mock_call.result).body)

====
